---- MODULE Spec2Model ----
(***************************************************************************)
(* Model of the API gateway of ds-lab3: the CircuitBreaker state machine   *)
(* (app/circuit_breaker.py), the breaker-wrapped service clients           *)
(* (app/services.py) and the gateway's orchestrations (app/gateway/main.py)*)
(***************************************************************************)
EXTENDS Integers, Sequences, FiniteSets, TLC

(* ---- bounds of the model ---- *)
MaxWindow == 3
MaxThreshold == 3
MaxTimeout == 2
MaxCalls == 6
MaxTime == 5
MaxDur == 1
MaxClientCalls == 4
ClockStep == 10
MaxClock == 30
MaxRuns == 4
MaxCancels == 1
MaxRefundClock == 14
MaxViews == 4
MaxTickets == 1
NumThreads == 2

(* ---- program constants ---- *)
DefaultWindowSize == 10
WrapFailureThreshold == 3
WrapRecoveryTimeout == 20
MaxSeconds == 10
Interval == 1

VARIABLES
    cb,      \* the breaker of the single-breaker specification
    now,     \* time.time()
    log,     \* the guarded calls made on cb so far
    cbs,     \* the breakers made by wrap_cb, one per decorated function
    last,    \* the last call on a service client
    ncalls,  \* number of calls on the service clients so far
    buy,     \* the run of buy_ticket in progress: position, locals, requests issued
    nruns,   \* number of runs of buy_ticket started so far
    refund,  \* the run of return_ticket and of its delete_with_retry task
    me,      \* the run of get_user in progress
    thr      \* the threads inside CircuitBreaker.call on cb

cbvars == <<cb, log>>

clientvars == <<cbs, last, ncalls>>

buyvars == <<buy, nruns>>

gwvars == <<refund, me, thr>>

vars == <<cb, now, log, cbs, last, ncalls, buy, nruns, refund, me, thr>>

(* ---- app/circuit_breaker.py ---- *)

None == "None"

CircuitOpenException(service) == [type |-> "CircuitOpenException", service |-> service]

NoException == [type |-> None, service |-> None]

\* CircuitBreaker.__init__
CircuitBreaker(service, window_size, failure_threshold, recovery_timeout) ==
    [service |-> service,
     window_size |-> window_size,
     failure_threshold |-> failure_threshold,
     recovery_timeout |-> recovery_timeout,
     state |-> "closed",
     open_since |-> None,
     results |-> <<>>]

DequeAppend_Unbounded(d, x, maxlen) == d \o <<x>>

DequeAppend_EvictNewest(d, x, maxlen) ==
    IF maxlen = 0 THEN d
    ELSE IF Len(d) >= maxlen THEN SubSeq(d, 1, Len(d) - 1) \o <<x>>
    ELSE d \o <<x>>

\* deque(maxlen=...).append: a full deque drops its leftmost element
DequeAppend(d, x, maxlen) ==
    IF maxlen = 0 THEN d
    ELSE IF Len(d) >= maxlen THEN Tail(d) \o <<x>>
    ELSE d \o <<x>>

\* CircuitBreaker._failure_count
failure_count(results) == Cardinality({i \in 1..Len(results) : results[i] = FALSE})

TimeoutElapsed_Strict(b, t) == t - b.open_since > b.recovery_timeout

\* the recovery test of the OPEN branch
TimeoutElapsed(b, t) == t - b.open_since >= b.recovery_timeout

Admit_NoReject(b, t) ==
    IF b.state = "open"
    THEN [admitted |-> TRUE, cb |-> [b EXCEPT !.state = "half-open"]]
    ELSE [admitted |-> TRUE, cb |-> b]

\* the OPEN branch of call: whether the call goes on, and the breaker then
Admit(b, t) ==
    IF b.state = "open"
    THEN IF TimeoutElapsed(b, t)
         THEN [admitted |-> TRUE, cb |-> [b EXCEPT !.state = "half-open"]]
         ELSE [admitted |-> FALSE, cb |-> b]
    ELSE [admitted |-> TRUE, cb |-> b]

\* the breaker is opened at time t
Trip(b, t) == [b EXCEPT !.state = "open", !.open_since = t]

OnFailure_Above(b, t) ==
    LET r == [b EXCEPT !.results = DequeAppend(b.results, FALSE, b.window_size)]
    IN IF r.state = "half-open" THEN Trip(r, t)
       ELSE IF failure_count(r.results) > r.failure_threshold THEN Trip(r, t)
       ELSE r

\* the except branch of call; t is time.time() once the operation has raised
OnFailure(b, t) ==
    LET r == [b EXCEPT !.results = DequeAppend(b.results, FALSE, b.window_size)]
    IN IF r.state = "half-open" THEN Trip(r, t)
       ELSE IF failure_count(r.results) >= r.failure_threshold THEN Trip(r, t)
       ELSE r

OnSuccess_NoClear(b) ==
    LET r == [b EXCEPT !.results = DequeAppend(b.results, TRUE, b.window_size)]
    IN IF r.state = "half-open"
       THEN [r EXCEPT !.state = "closed"]
       ELSE r

\* the SUCCESS branch of call
OnSuccess(b) ==
    LET r == [b EXCEPT !.results = DequeAppend(b.results, TRUE, b.window_size)]
    IN IF r.state = "half-open"
       THEN [r EXCEPT !.state = "closed", !.results = <<>>]
       ELSE r

RaisedOnFailure_Reraise(b, f) ==
    IF b.state = "closed" /\ failure_count(b.results) + 1 < b.failure_threshold
    THEN [type |-> f.exc, service |-> None]
    ELSE CircuitOpenException(b.service)

\* what the caller of a failed guarded call receives
RaisedOnFailure(b, f) == CircuitOpenException(b.service)

\* CircuitBreaker.call(func): f is what func does when it is run
\* ([exc, ret]: the exception it raises or None, and its return value),
\* dur the time func takes.  Yields the breaker afterwards, whether func was
\* run, the state it was run in, what the caller gets and the time at return.
call(b, t, f, dur) ==
    LET adm == Admit(b, t)
        a == adm.cb
    IN IF ~adm.admitted
       THEN [cb |-> b, invoked |-> FALSE, during |-> b.state,
             exc |-> CircuitOpenException(b.service), ret |-> None, t |-> t]
       ELSE IF f.exc # None
            THEN [cb |-> OnFailure(a, t + dur), invoked |-> TRUE, during |-> a.state,
                  exc |-> RaisedOnFailure(a, f), ret |-> None, t |-> t + dur]
            ELSE [cb |-> OnSuccess(a), invoked |-> TRUE, during |-> a.state,
                  exc |-> NoException, ret |-> f.ret, t |-> t + dur]

(* ---- app/services.py ---- *)

\* what the backend does with a request: no answer at all, or a status
Responses ==
    {[err |-> TRUE, status |-> 0]} \cup {[err |-> FALSE, status |-> st] : st \in {200, 404, 500}}

Returns(v) == [exc |-> None, ret |-> v]

Raises(e) == [exc |-> e, ret |-> None]

\* requests.Response.raise_for_status
raise_for_status(resp) == resp.status >= 400 /\ resp.status < 600

\* a client method that sends one request and calls raise_for_status
SendAndCheck(resp, v) ==
    IF resp.err THEN Raises("ConnectionError")
    ELSE IF raise_for_status(resp) THEN Raises("HTTPError")
    ELSE Returns(v)

\* a client method that returns None on 404 before raise_for_status
SendAndCheckFound(resp, v) ==
    IF resp.err THEN Raises("ConnectionError")
    ELSE IF resp.status = 404 THEN Returns(None)
    ELSE IF raise_for_status(resp) THEN Raises("HTTPError")
    ELSE Returns(v)

get_all(resp) == SendAndCheck(resp, "value")

get_flight_by_number(resp) == SendAndCheck(resp, "value")

get_user_tickets(resp) == SendAndCheck(resp, "value")

get_ticket(resp) == SendAndCheckFound(resp, "value")

delete_ticket(resp) == SendAndCheck(resp, None)

create_ticket(resp) == SendAndCheck(resp, None)

get_user_privelge(resp) == SendAndCheckFound(resp, "value")

get_user_privelge_history(resp) == SendAndCheck(resp, "value")

get_user_privelge_transaction(resp) == SendAndCheckFound(resp, "value")

add_transaction(resp) == SendAndCheck(resp, None)

rollback_transaction(resp) == SendAndCheck(resp, None)

FlightsOps == {"get_all", "get_flight_by_number"}

TicketsOps == {"get_user_tickets", "get_ticket", "delete_ticket", "create_ticket"}

PrivilegesOps == {"get_user_privelge", "get_user_privelge_history",
                  "get_user_privelge_transaction", "add_transaction",
                  "rollback_transaction"}

ClientOps == FlightsOps \cup TicketsOps \cup PrivilegesOps

\* the NAME of the class of a method
ServiceName(op) ==
    IF op \in FlightsOps THEN "Flights Service"
    ELSE IF op \in TicketsOps THEN "Ticket Service"
    ELSE "Bonus Service"

\* the methods decorated with @wrap_cb(NAME)
GuardedOps == {"get_all", "get_flight_by_number", "get_user_tickets", "get_ticket",
               "get_user_privelge", "get_user_privelge_history",
               "get_user_privelge_transaction"}

\* wrap_cb makes its CircuitBreaker in the inner decorator, once per method
BreakerOf(op) == op

Breakers == {BreakerOf(op) : op \in GuardedOps}

\* the breakers as made when the classes are defined
WrapCb ==
    [k \in Breakers |->
        CircuitBreaker(ServiceName(CHOOSE op \in GuardedOps : BreakerOf(op) = k),
                       DefaultWindowSize, WrapFailureThreshold, WrapRecoveryTimeout)]

\* the body of a method, given the backend's answer
Body(op, resp) ==
    CASE op = "get_all" -> get_all(resp)
      [] op = "get_flight_by_number" -> get_flight_by_number(resp)
      [] op = "get_user_tickets" -> get_user_tickets(resp)
      [] op = "get_ticket" -> get_ticket(resp)
      [] op = "delete_ticket" -> delete_ticket(resp)
      [] op = "create_ticket" -> create_ticket(resp)
      [] op = "get_user_privelge" -> get_user_privelge(resp)
      [] op = "get_user_privelge_history" -> get_user_privelge_history(resp)
      [] op = "get_user_privelge_transaction" -> get_user_privelge_transaction(resp)
      [] op = "add_transaction" -> add_transaction(resp)
      [] op = "rollback_transaction" -> rollback_transaction(resp)

\* a call of a client method: through wrapper for the decorated ones,
\* directly for the others.  sent: the request went to the backend.
Invoke(op, resp, bs, t, dur) ==
    IF op \in GuardedOps
    THEN LET r == call(bs[BreakerOf(op)], t, Body(op, resp), dur)
         IN [cbs |-> [bs EXCEPT ![BreakerOf(op)] = r.cb], sent |-> r.invoked,
             exc |-> r.exc, ret |-> r.ret, t |-> r.t]
    ELSE LET f == Body(op, resp)
         IN [cbs |-> bs, sent |-> TRUE,
             exc |-> [type |-> f.exc, service |-> None], ret |-> f.ret, t |-> t + dur]

(* ---- calls of the service clients ---- *)

\* what a call of a client method was and how it ended
CallRecord(op, resp, r) ==
    [op |-> op, resp |-> resp, sent |-> r.sent, exc |-> r.exc, ret |-> r.ret]

NoCall == [op |-> None, resp |-> [err |-> FALSE, status |-> 0], sent |-> FALSE,
           exc |-> NoException, ret |-> None]

(* ---- app/gateway/main.py: buy_ticket ---- *)

PaidByBonus_Balance(flag, balance, price) == IF flag THEN balance ELSE 0

Prices == {25, 500}

Balances == {0, 300, 1000}

\* no run of buy_ticket yet
NoRun == [pc |-> "idle", flag |-> FALSE, price |-> 0, balance |-> 0, priv |-> None,
          paid_by_money |-> 0, paid_by_bonus |-> 0, ticket_uid |-> 0,
          issued |-> <<>>, outcome |-> None]

\* circuit_open_exception_handler answers 503; any other exception leaves
\* the handler as an internal error
ErrorOutcome(exc) ==
    IF exc.type = "CircuitOpenException" THEN "ServiceUnavailable" ELSE "InternalError"

\* the payment split of buy_ticket
PaidByBonus(flag, balance, price) ==
    IF flag THEN (IF balance < price THEN balance ELSE price) ELSE 0

PaidByMoney(flag, balance, price) == price - PaidByBonus(flag, balance, price)

NoTransaction == [operation_type |-> None, balance_diff |-> 0]

FillInBalance_Full(paid_by_money) ==
    [operation_type |-> "FILL_IN_BALANCE", balance_diff |-> paid_by_money]

\* the AddTranscationRequest of the else branch
FillInBalance(paid_by_money) ==
    [operation_type |-> "FILL_IN_BALANCE", balance_diff |-> paid_by_money \div 10]

\* the AddTranscationRequest buy_ticket passes to add_transaction, if any
LedgerTransaction(flag, paid_by_money, paid_by_bonus) ==
    IF flag
    THEN IF paid_by_bonus # 0
         THEN [operation_type |-> "DEBIT_THE_ACCOUNT", balance_diff |-> paid_by_bonus]
         ELSE NoTransaction
    ELSE FillInBalance(paid_by_money)

\* a request buy_ticket issued through a client
Request(op, uid, tx) == [op |-> op, ticket_uid |-> uid, tx |-> tx]

(* ---- app/gateway/main.py: return_ticket and delete_with_retry ---- *)

\* the tickets the ticket backend may hold for a uid: whose it is and its status
Tickets == [mine : BOOLEAN, status : {"PAID", "CANCELED"}]

\* no run of return_ticket yet
NoRefund == [pc |-> "idle", n |-> 0, ticket |-> [mine |-> FALSE, status |-> None],
             outcome |-> None, delete_issued |-> FALSE, deleted |-> FALSE,
             scheduled |-> FALSE, deadline |-> 0, attempted |-> FALSE,
             waited |-> FALSE, attempt |-> None, rollback_issued |-> FALSE,
             rolled_back |-> FALSE]

TicketCheck_NoStatus(ret, tk) ==
    IF ret = None THEN "NotFound"
    ELSE IF ~tk.mine THEN "OwnershipError"
    ELSE "ok"

\* the three checks of return_ticket on the ticket it looked up
TicketCheck(ret, tk) ==
    IF ret = None THEN "NotFound"
    ELSE IF ~tk.mine THEN "OwnershipError"
    ELSE IF tk.status # "PAID" THEN "InvalidStateError"
    ELSE "ok"

AfterDelete_AlwaysSchedule(rf, exc) ==
    IF exc.type # None
    THEN [rf EXCEPT !.pc = "scheduled", !.delete_issued = TRUE, !.scheduled = TRUE,
                    !.outcome = ErrorOutcome(exc)]
    ELSE [rf EXCEPT !.pc = "scheduled", !.delete_issued = TRUE, !.deleted = TRUE,
                    !.scheduled = TRUE, !.outcome = "NoContent"]

\* the run after delete_ticket: an exception ends the request before add_task
AfterDelete(rf, exc) ==
    IF exc.type # None
    THEN [rf EXCEPT !.pc = "done", !.delete_issued = TRUE, !.outcome = ErrorOutcome(exc)]
    ELSE [rf EXCEPT !.pc = "scheduled", !.delete_issued = TRUE, !.deleted = TRUE,
                    !.scheduled = TRUE, !.outcome = "NoContent"]

LoopCondition_NoDeadline(t, deadline) == t < MaxRefundClock

\* while time.time() < deadline
LoopCondition(t, deadline) == t < deadline

(* ---- app/gateway/main.py: get_user ---- *)

\* no run of get_user yet.  priv_call, tickets_call: how the lookup went
\* ("ok", "not found", "failed": sent and raised, "rejected": not sent)
NoView == [pc |-> "idle", n |-> 0, privilege |-> None, priv_call |-> None,
           tickets_call |-> None, count |-> 0, todo |-> 0, tickets |-> <<>>,
           outcome |-> None, body |-> None]

\* how a call of a guarded client method went
HowItWent(r) ==
    IF r.exc.type # None THEN (IF r.sent THEN "failed" ELSE "rejected")
    ELSE IF r.ret = None THEN "not found"
    ELSE "ok"

Placeholder == "XXX"

get_flight_by_number_or_default_Raise(r) == r

\* FlightsService.get_flight_by_number_or_default, given how
\* get_flight_by_number ended
get_flight_by_number_or_default(r) ==
    IF r.exc.type = "CircuitOpenException"
    THEN [r EXCEPT !.exc = NoException, !.ret = Placeholder]
    ELSE r

\* the UserInfoResponse of get_user
UserInfoResponse(tickets, privilege) ==
    [tickets |-> tickets, privilege |-> IF privilege = None THEN "" ELSE "PrivilegeShortInfo"]

\* get_user returns its response
Respond(m) ==
    [m EXCEPT !.pc = "done", !.outcome = "UserInfoResponse",
              !.body = UserInfoResponse(m.tickets, m.privilege)]

NoThreads == <<>>

\* a thread that is not inside CircuitBreaker.call
IdleThread == [pc |-> "idle", during |-> None]

(* ---- a breaker driven by a sequence of guarded calls ---- *)

FuncOutcomes == {[exc |-> None, ret |-> "value"], [exc |-> "HTTPError", ret |-> None]}

LogEntry(f, r) ==
    [raised |-> f.exc, invoked |-> r.invoked,
     during |-> r.during, exc |-> r.exc, ret |-> r.ret]

Init ==
    /\ \E ws \in 1..MaxWindow, ft \in 1..MaxThreshold, rt \in 1..MaxTimeout :
          cb = CircuitBreaker("svc", ws, ft, rt)
    /\ now = 0
    /\ log = <<>>
    /\ cbs = WrapCb
    /\ last = NoCall
    /\ ncalls = 0
    /\ buy = NoRun
    /\ nruns = 0
    /\ refund = NoRefund
    /\ me = NoView
    /\ thr = NoThreads

\* one guarded call, start to return
Call ==
    \E f \in FuncOutcomes, dur \in 0..MaxDur :
       /\ Len(log) < MaxCalls
       /\ now + dur <= MaxTime
       /\ LET r == call(cb, now, f, dur)
          IN /\ cb' = r.cb
             /\ now' = r.t
             /\ log' = Append(log, LogEntry(f, r))
       /\ UNCHANGED <<clientvars, buyvars, gwvars>>

\* the clock advances between calls
Tick ==
    /\ now < MaxTime
    /\ now' = now + 1
    /\ UNCHANGED <<cbvars, clientvars, buyvars, gwvars>>

Next == Call \/ Tick

Spec == Init /\ [][Next]_vars

OpDurations == {0, ClockStep}

InitClient ==
    /\ cbs = WrapCb
    /\ now = 0
    /\ last = NoCall
    /\ ncalls = 0
    /\ buy = NoRun
    /\ nruns = 0
    /\ refund = NoRefund
    /\ me = NoView
    /\ thr = NoThreads
    /\ cb = CircuitBreaker("svc", 1, 1, 1)
    /\ log = <<>>

\* one call of one client method
ClientCall ==
    \E op \in ClientOps, resp \in Responses, dur \in OpDurations :
       /\ ncalls < MaxClientCalls
       /\ now + dur <= MaxClock
       /\ LET r == Invoke(op, resp, cbs, now, dur)
          IN /\ cbs' = r.cbs
             /\ now' = r.t
             /\ last' = [op |-> op, resp |-> resp, sent |-> r.sent,
                         exc |-> r.exc, ret |-> r.ret]
             /\ ncalls' = ncalls + 1
       /\ UNCHANGED <<cbvars, buyvars, gwvars>>

ClientTick ==
    /\ now + ClockStep <= MaxClock
    /\ now' = now + ClockStep
    /\ UNCHANGED <<cbvars, clientvars, buyvars, gwvars>>

NextClient == ClientCall \/ ClientTick

SpecClient == InitClient /\ [][NextClient]_vars

(* ---- runs of buy_ticket ---- *)

\* a request comes in
BuyStart ==
    \E flag \in BOOLEAN :
       /\ buy.pc \in {"idle", "done"}
       /\ nruns < MaxRuns
       /\ buy' = [NoRun EXCEPT !.pc = "flight", !.flag = flag]
       /\ nruns' = nruns + 1
       /\ UNCHANGED <<now, cbs, cbvars, last, ncalls, gwvars>>

\* flight = flights_service.get_flight_by_number(body.flightNumber)
BuyFlight ==
    \E resp \in Responses, price \in Prices, dur \in OpDurations :
       /\ buy.pc = "flight"
       /\ now + dur <= MaxClock
       /\ LET r == Invoke("get_flight_by_number", resp, cbs, now, dur)
              iss == IF r.sent
                     THEN Append(buy.issued, Request("get_flight_by_number", 0, NoTransaction))
                     ELSE buy.issued
          IN /\ cbs' = r.cbs
             /\ now' = r.t
             /\ last' = CallRecord("get_flight_by_number", resp, r)
             /\ buy' = IF r.exc.type # None
                       THEN [buy EXCEPT !.pc = "done", !.issued = iss,
                                        !.outcome = ErrorOutcome(r.exc)]
                       ELSE IF r.ret = None
                       THEN [buy EXCEPT !.pc = "done", !.issued = iss,
                                        !.outcome = "ValidationError"]
                       ELSE [buy EXCEPT !.pc = "priv", !.issued = iss, !.price = price]
       /\ UNCHANGED <<cbvars, ncalls, nruns, gwvars>>

\* priv = privileges_service.get_user_privelge(x_user_name)
BuyPriv ==
    \E resp \in Responses, balance \in Balances, dur \in OpDurations :
       /\ buy.pc = "priv"
       /\ now + dur <= MaxClock
       /\ LET r == Invoke("get_user_privelge", resp, cbs, now, dur)
              iss == IF r.sent
                     THEN Append(buy.issued, Request("get_user_privelge", 0, NoTransaction))
                     ELSE buy.issued
          IN /\ cbs' = r.cbs
             /\ now' = r.t
             /\ last' = CallRecord("get_user_privelge", resp, r)
             /\ buy' = IF r.exc.type # None
                       THEN [buy EXCEPT !.pc = "done", !.issued = iss,
                                        !.outcome = ErrorOutcome(r.exc)]
                       ELSE IF r.ret = None
                       THEN [buy EXCEPT !.pc = "done", !.issued = iss,
                                        !.outcome = "ValidationError"]
                       ELSE [buy EXCEPT !.pc = "ledger", !.issued = iss,
                                        !.priv = r.ret, !.balance = balance]
       /\ UNCHANGED <<cbvars, ncalls, nruns, gwvars>>

\* ticket_uid = uuid.uuid4(), the payment split and the ledger transaction
BuyLedger ==
    \E resp \in Responses, dur \in OpDurations :
       /\ buy.pc = "ledger"
       /\ now + dur <= MaxClock
       /\ LET uid == nruns
              bonus == PaidByBonus(buy.flag, buy.balance, buy.price)
              money == PaidByMoney(buy.flag, buy.balance, buy.price)
              tx == LedgerTransaction(buy.flag, money, bonus)
              b == [buy EXCEPT !.ticket_uid = uid, !.paid_by_bonus = bonus,
                               !.paid_by_money = money]
          IN IF tx = NoTransaction
             THEN /\ buy' = [b EXCEPT !.pc = "reread"]
                  /\ UNCHANGED <<now, cbs, last>>
             ELSE LET r == Invoke("add_transaction", resp, cbs, now, dur)
                      iss == Append(buy.issued, Request("add_transaction", uid, tx))
                  IN /\ cbs' = r.cbs
                     /\ now' = r.t
                     /\ last' = CallRecord("add_transaction", resp, r)
                     /\ buy' = IF r.exc.type # None
                               THEN [b EXCEPT !.pc = "done", !.issued = iss,
                                              !.outcome = ErrorOutcome(r.exc)]
                               ELSE [b EXCEPT !.pc = "reread", !.issued = iss]
       /\ UNCHANGED <<cbvars, ncalls, nruns, gwvars>>

\* priv = privileges_service.get_user_privelge(x_user_name), the second time
BuyReread ==
    \E resp \in Responses, balance \in Balances, dur \in OpDurations :
       /\ buy.pc = "reread"
       /\ now + dur <= MaxClock
       /\ LET r == Invoke("get_user_privelge", resp, cbs, now, dur)
              iss == IF r.sent
                     THEN Append(buy.issued, Request("get_user_privelge", 0, NoTransaction))
                     ELSE buy.issued
          IN /\ cbs' = r.cbs
             /\ now' = r.t
             /\ last' = CallRecord("get_user_privelge", resp, r)
             /\ buy' = IF r.exc.type # None
                       THEN [buy EXCEPT !.pc = "done", !.issued = iss,
                                        !.outcome = ErrorOutcome(r.exc)]
                       ELSE IF r.ret = None
                       THEN [buy EXCEPT !.pc = "create", !.issued = iss, !.priv = None]
                       ELSE [buy EXCEPT !.pc = "create", !.issued = iss,
                                        !.priv = r.ret, !.balance = balance]
       /\ UNCHANGED <<cbvars, ncalls, nruns, gwvars>>

\* tickets_service.create_ticket(...) and the response; priv.balance raises
\* AttributeError when the second lookup returned None
BuyCreate ==
    \E resp \in Responses, dur \in OpDurations :
       /\ buy.pc = "create"
       /\ now + dur <= MaxClock
       /\ LET r == Invoke("create_ticket", resp, cbs, now, dur)
              iss == Append(buy.issued, Request("create_ticket", buy.ticket_uid, NoTransaction))
          IN /\ cbs' = r.cbs
             /\ now' = r.t
             /\ last' = CallRecord("create_ticket", resp, r)
             /\ buy' = IF r.exc.type # None
                       THEN [buy EXCEPT !.pc = "done", !.issued = iss,
                                        !.outcome = ErrorOutcome(r.exc)]
                       ELSE IF buy.priv = None
                       THEN [buy EXCEPT !.pc = "done", !.issued = iss,
                                        !.outcome = "InternalError"]
                       ELSE [buy EXCEPT !.pc = "done", !.issued = iss,
                                        !.outcome = "TicketPurchaseResponse"]
       /\ UNCHANGED <<cbvars, ncalls, nruns, gwvars>>

BuyTick ==
    /\ now + ClockStep <= MaxClock
    /\ now' = now + ClockStep
    /\ UNCHANGED <<cbvars, clientvars, buyvars, gwvars>>

InitPurchase ==
    /\ cbs = WrapCb
    /\ now = 0
    /\ last = NoCall
    /\ ncalls = 0
    /\ buy = NoRun
    /\ nruns = 0
    /\ refund = NoRefund
    /\ me = NoView
    /\ thr = NoThreads
    /\ cb = CircuitBreaker("svc", 1, 1, 1)
    /\ log = <<>>

NextPurchase ==
    BuyStart \/ BuyFlight \/ BuyPriv \/ BuyLedger \/ BuyReread \/ BuyCreate \/ BuyTick

SpecPurchase == InitPurchase /\ [][NextPurchase]_vars

(* ---- runs of return_ticket ---- *)

\* a cancellation request comes in
RefundStart ==
    /\ refund.pc \in {"idle", "done"}
    /\ refund.n < MaxCancels
    /\ refund' = [NoRefund EXCEPT !.pc = "get_ticket", !.n = refund.n + 1]
    /\ UNCHANGED <<now, cbs, last, cbvars, ncalls, buyvars, me, thr>>

\* ticket = tickets_service.get_ticket(ticket_uid) and the three checks
RefundGetTicket ==
    \E resp \in Responses, tk \in Tickets, dur \in 0..MaxDur :
       /\ refund.pc = "get_ticket"
       /\ now + dur <= MaxRefundClock
       /\ LET r == Invoke("get_ticket", resp, cbs, now, dur)
          IN /\ cbs' = r.cbs
             /\ now' = r.t
             /\ refund' = IF r.exc.type # None
                          THEN [refund EXCEPT !.pc = "done", !.outcome = ErrorOutcome(r.exc)]
                          ELSE IF r.ret = None
                          THEN [refund EXCEPT !.pc = "done",
                                              !.outcome = TicketCheck(r.ret, tk)]
                          ELSE IF TicketCheck(r.ret, tk) # "ok"
                          THEN [refund EXCEPT !.pc = "done", !.ticket = tk,
                                              !.outcome = TicketCheck(r.ret, tk)]
                          ELSE [refund EXCEPT !.pc = "delete", !.ticket = tk]
       /\ UNCHANGED <<last, cbvars, ncalls, buyvars, me, thr>>

\* tickets_service.delete_ticket(ticket_uid), then background_tasks.add_task
RefundDelete ==
    \E resp \in Responses, dur \in 0..MaxDur :
       /\ refund.pc = "delete"
       /\ now + dur <= MaxRefundClock
       /\ LET r == Invoke("delete_ticket", resp, cbs, now, dur)
          IN /\ cbs' = r.cbs
             /\ now' = r.t
             /\ refund' = AfterDelete(refund, r.exc)
       /\ UNCHANGED <<last, cbvars, ncalls, buyvars, me, thr>>

\* the background task starts: deadline = time.time() + max_seconds
RefundTaskStart ==
    /\ refund.pc = "scheduled"
    /\ now + MaxSeconds + MaxDur + Interval <= MaxRefundClock
    /\ refund' = [refund EXCEPT !.pc = "loop", !.deadline = now + MaxSeconds]
    /\ UNCHANGED <<now, cbs, last, cbvars, ncalls, buyvars, me, thr>>

\* while time.time() < deadline: the lookup of the ledger transaction
RefundAttempt ==
    \E resp \in Responses, dur \in 0..MaxDur :
       /\ refund.pc = "loop"
       /\ LoopCondition(now, refund.deadline)
       /\ now + dur <= MaxRefundClock
       /\ LET r == Invoke("get_user_privelge_transaction", resp, cbs, now, dur)
              a == [refund EXCEPT !.attempted = TRUE, !.waited = FALSE]
          IN /\ cbs' = r.cbs
             /\ now' = r.t
             /\ refund' = IF r.exc.type = "CircuitOpenException"
                          THEN [a EXCEPT !.pc = "sleep", !.attempt = "unavailable"]
                          ELSE IF r.ret = None
                          THEN [a EXCEPT !.pc = "loop", !.attempt = "not found"]
                          ELSE [a EXCEPT !.pc = "rollback", !.attempt = "found"]
       /\ UNCHANGED <<last, cbvars, ncalls, buyvars, me, thr>>

\* except CircuitOpenException: time.sleep(interval)
RefundSleep ==
    /\ refund.pc = "sleep"
    /\ now + Interval <= MaxRefundClock
    /\ now' = now + Interval
    /\ refund' = [refund EXCEPT !.pc = "loop", !.waited = TRUE]
    /\ UNCHANGED <<cbs, last, cbvars, ncalls, buyvars, me, thr>>

\* privileges_service.rollback_transaction(...); break.  An exception of
\* rollback_transaction is no CircuitOpenException and ends the task.
RefundRollback ==
    \E resp \in Responses, dur \in 0..MaxDur :
       /\ refund.pc = "rollback"
       /\ now + dur <= MaxRefundClock
       /\ LET r == Invoke("rollback_transaction", resp, cbs, now, dur)
          IN /\ cbs' = r.cbs
             /\ now' = r.t
             /\ refund' = IF r.exc.type = "CircuitOpenException"
                          THEN [refund EXCEPT !.pc = "sleep", !.rollback_issued = r.sent]
                          ELSE [refund EXCEPT !.pc = "done", !.rollback_issued = TRUE,
                                              !.rolled_back = (r.exc.type = None)]
       /\ UNCHANGED <<last, cbvars, ncalls, buyvars, me, thr>>

\* the while condition fails: the deadline has passed
RefundExit ==
    /\ refund.pc = "loop"
    /\ ~LoopCondition(now, refund.deadline)
    /\ refund' = [refund EXCEPT !.pc = "done"]
    /\ UNCHANGED <<now, cbs, last, cbvars, ncalls, buyvars, me, thr>>

\* the clock advances; while the task sleeps it advances by RefundSleep
RefundTick ==
    /\ now < MaxRefundClock
    /\ refund.pc # "sleep"
    /\ now' = now + 1
    /\ UNCHANGED <<cbs, last, cbvars, ncalls, buyvars, gwvars>>

InitRefund == InitPurchase

NextRefund ==
    \/ RefundStart \/ RefundGetTicket \/ RefundDelete \/ RefundTaskStart
    \/ RefundAttempt \/ RefundSleep \/ RefundRollback \/ RefundExit \/ RefundTick

SpecRefund == InitRefund /\ [][NextRefund]_vars

\* the task's thread is scheduled and the clock advances
SpecRefundFair ==
    /\ SpecRefund
    /\ WF_vars(RefundTick)
    /\ WF_vars(RefundAttempt)
    /\ WF_vars(RefundSleep)
    /\ WF_vars(RefundRollback)
    /\ WF_vars(RefundExit)

(* ---- runs of get_user ---- *)

\* a profile request comes in
MeStart ==
    /\ me.pc \in {"idle", "done"}
    /\ me.n < MaxViews
    /\ me' = [NoView EXCEPT !.pc = "priv", !.n = me.n + 1]
    /\ UNCHANGED <<now, cbs, last, cbvars, ncalls, buyvars, refund, thr>>

\* the first try block: privileges_service.get_user_privelge(x_user_name)
MePriv ==
    \E resp \in Responses, dur \in OpDurations :
       /\ me.pc = "priv"
       /\ now + dur <= MaxClock
       /\ LET r == Invoke("get_user_privelge", resp, cbs, now, dur)
              m == [me EXCEPT !.priv_call = HowItWent(r)]
          IN /\ cbs' = r.cbs
             /\ now' = r.t
             /\ me' = IF r.exc.type = "CircuitOpenException"
                      THEN [m EXCEPT !.pc = "tickets", !.privilege = None]
                      ELSE IF r.exc.type # None
                      THEN [m EXCEPT !.pc = "done", !.outcome = ErrorOutcome(r.exc)]
                      ELSE IF r.ret = None
                      THEN [m EXCEPT !.pc = "done", !.outcome = "NotFound"]
                      ELSE [m EXCEPT !.pc = "tickets", !.privilege = r.ret]
       /\ UNCHANGED <<last, cbvars, ncalls, buyvars, refund, thr>>

\* the second try block: tickets_service.get_user_tickets(x_user_name)
MeTickets ==
    \E resp \in Responses, k \in 0..MaxTickets, dur \in OpDurations :
       /\ me.pc = "tickets"
       /\ now + dur <= MaxClock
       /\ LET r == Invoke("get_user_tickets", resp, cbs, now, dur)
              m == [me EXCEPT !.tickets_call = HowItWent(r)]
          IN /\ cbs' = r.cbs
             /\ now' = r.t
             /\ me' = IF r.exc.type = "CircuitOpenException"
                      THEN Respond([m EXCEPT !.tickets = <<>>])
                      ELSE IF r.exc.type # None
                      THEN [m EXCEPT !.pc = "done", !.outcome = ErrorOutcome(r.exc)]
                      ELSE IF k = 0
                      THEN Respond([m EXCEPT !.tickets = <<>>])
                      ELSE [m EXCEPT !.pc = "flight", !.count = k, !.todo = k]
       /\ UNCHANGED <<last, cbvars, ncalls, buyvars, refund, thr>>

\* map_ticket_to_ticket_response for the next ticket of the list
MeFlight ==
    \E resp \in Responses, dur \in OpDurations :
       /\ me.pc = "flight"
       /\ now + dur <= MaxClock
       /\ LET r == Invoke("get_flight_by_number", resp, cbs, now, dur)
              f == get_flight_by_number_or_default(r)
              m == [me EXCEPT !.tickets = Append(me.tickets,
                                                 [flight |-> f.ret, lookup |-> HowItWent(r)]),
                              !.todo = me.todo - 1]
          IN /\ cbs' = r.cbs
             /\ now' = r.t
             /\ me' = IF f.exc.type = "CircuitOpenException"
                      THEN Respond([me EXCEPT !.tickets = <<>>])
                      ELSE IF f.exc.type # None
                      THEN [me EXCEPT !.pc = "done", !.outcome = ErrorOutcome(f.exc)]
                      ELSE IF m.todo = 0 THEN Respond(m)
                      ELSE m
       /\ UNCHANGED <<last, cbvars, ncalls, buyvars, refund, thr>>

MeTick ==
    /\ now + ClockStep <= MaxClock
    /\ now' = now + ClockStep
    /\ UNCHANGED <<cbs, last, cbvars, ncalls, buyvars, gwvars>>

InitProfile == InitPurchase

NextProfile == MeStart \/ MePriv \/ MeTickets \/ MeFlight \/ MeTick

SpecProfile == InitProfile /\ [][NextProfile]_vars

(* ---- concurrent calls on one breaker ---- *)

Threads == 1..NumThreads

Running == {t \in DOMAIN thr : thr[t].pc = "running"}

InitConc ==
    /\ \E ws \in 1..MaxWindow, ft \in 1..MaxThreshold, rt \in 1..MaxTimeout :
          cb = CircuitBreaker("svc", ws, ft, rt)
    /\ now = 0
    /\ log = <<>>
    /\ cbs = WrapCb
    /\ last = NoCall
    /\ ncalls = 0
    /\ buy = NoRun
    /\ nruns = 0
    /\ refund = NoRefund
    /\ me = NoView
    /\ thr = [t \in Threads |-> IdleThread]

\* a thread enters call: the OPEN branch, then func starts or the call is rejected
Enter(t) ==
    /\ thr[t].pc = "idle"
    /\ Len(log) + Cardinality(Running) < MaxCalls
    /\ LET adm == Admit(cb, now)
       IN IF adm.admitted
          THEN /\ cb' = adm.cb
               /\ thr' = [thr EXCEPT ![t] = [pc |-> "running", during |-> adm.cb.state]]
               /\ log' = log
          ELSE /\ cb' = cb
               /\ thr' = thr
               /\ log' = Append(log, LogEntry([exc |-> None, ret |-> None],
                                   [invoked |-> FALSE, during |-> cb.state,
                                    exc |-> CircuitOpenException(cb.service), ret |-> None]))
    /\ UNCHANGED <<now, clientvars, buyvars, refund, me>>

\* func returns or raises in a thread: the rest of call
Finish(t) ==
    \E f \in FuncOutcomes :
       /\ thr[t].pc = "running"
       /\ cb' = IF f.exc # None THEN OnFailure(cb, now) ELSE OnSuccess(cb)
       /\ thr' = [thr EXCEPT ![t] = IdleThread]
       /\ log' = Append(log, LogEntry(f,
                           [invoked |-> TRUE, during |-> thr[t].during,
                            exc |-> IF f.exc # None THEN RaisedOnFailure(cb, f) ELSE NoException,
                            ret |-> f.ret]))
       /\ UNCHANGED <<now, clientvars, buyvars, refund, me>>

ConcTick ==
    /\ now < MaxTime
    /\ now' = now + 1
    /\ UNCHANGED <<cbvars, clientvars, buyvars, gwvars>>

NextConc == (\E t \in Threads : Enter(t)) \/ (\E t \in Threads : Finish(t)) \/ ConcTick

SpecConc == InitConc /\ [][NextConc]_vars

(* ---- properties of the breaker ---- *)

\* the step is a guarded call; Last is the record of that call
IsCall == Len(log') = Len(log) + 1

Last == log'[Len(log')]

\* every call so far ended in a failure for its caller
AllFailing(l) == \A i \in 1..Len(l) : l[i].exc.type # None

\* C1: for N >= failure_threshold and window_size >= N, after N consecutive
\* failing calls on a fresh breaker the breaker is Open (it leaves Closed on
\* the failure that reaches the threshold), and the next call, made before
\* recovery_timeout has elapsed, is rejected without running the operation.
C1_OpensAfterNFailures ==
    [][ /\ (/\ IsCall
            /\ AllFailing(log')
            /\ Len(log') >= cb.failure_threshold
            /\ cb.window_size >= Len(log'))
           => /\ cb'.state = "open"
              /\ (Len(log') = cb.failure_threshold => cb.state = "closed" /\ Last.invoked)
        /\ (/\ IsCall
            /\ AllFailing(log)
            /\ Len(log) >= cb.failure_threshold
            /\ cb.window_size >= Len(log)
            /\ now - cb.open_since < cb.recovery_timeout)
           => /\ ~Last.invoked
              /\ Last.exc = CircuitOpenException(cb.service) ]_vars

C1_Witness ==
    /\ Len(log) = cb.failure_threshold + 1
    /\ cb.window_size >= Len(log)
    /\ AllFailing(log)
    /\ log[cb.failure_threshold].invoked
    /\ ~log[Len(log)].invoked
    /\ cb.state = "open"

\* C2: a call on an Open breaker whose recovery_timeout has not elapsed is
\* rejected with CircuitOpenException(service), the operation is not run and
\* state, window and open_since stay as they were.
C2_OpenRejects ==
    [][ (/\ IsCall
         /\ cb.state = "open"
         /\ now - cb.open_since < cb.recovery_timeout)
        => /\ ~Last.invoked
           /\ Last.exc = CircuitOpenException(cb.service)
           /\ cb'.state = cb.state
           /\ cb'.results = cb.results
           /\ cb'.open_since = cb.open_since ]_vars

C2_Witness ==
    /\ Len(log) >= 1
    /\ ~log[Len(log)].invoked
    /\ log[Len(log)].exc = CircuitOpenException(cb.service)
    /\ cb.state = "open"
    /\ now - cb.open_since < cb.recovery_timeout

\* C3: when the operation raises, a failure outcome is appended to the window
\* and the caller gets CircuitOpenException(service), not the original error;
\* a failure that leaves a Closed breaker below the threshold keeps it Closed.
C3_FailureRecordedAndMasked ==
    [][ (IsCall /\ Last.invoked /\ Last.raised # None)
        => /\ Last.exc = CircuitOpenException(cb.service)
           /\ Len(cb'.results) >= 1
           /\ cb'.results[Len(cb'.results)] = FALSE
           /\ Len(cb'.results) = (IF Len(cb.results) < cb.window_size
                                  THEN Len(cb.results) + 1 ELSE cb.window_size)
           /\ (cb.state = "closed" /\ failure_count(cb'.results) < cb.failure_threshold
               => cb'.state = "closed") ]_vars

C3_Witness ==
    /\ Len(log) = 1
    /\ log[1].invoked
    /\ log[1].raised = "HTTPError"
    /\ log[1].exc = CircuitOpenException(cb.service)
    /\ cb.state = "closed"
    /\ cb.results = <<FALSE>>

\* C4: a call on an Open breaker whose recovery_timeout has elapsed runs the
\* operation, as the half-open probe, whatever the window holds.
C4_ProbeAfterTimeout ==
    [][ (/\ IsCall
         /\ cb.state = "open"
         /\ now - cb.open_since >= cb.recovery_timeout)
        => /\ Last.invoked
           /\ Last.during = "half-open" ]_vars

C4_Witness ==
    /\ Len(log) >= 1
    /\ log[Len(log)].invoked
    /\ log[Len(log)].during = "half-open"

\* C5: the outcome of the half-open probe alone decides: a failing probe
\* reopens the breaker with open_since at the time of the failure, a
\* succeeding probe closes it and leaves the window empty.
C5_ProbeDecides ==
    [][ (IsCall /\ Last.invoked /\ Last.during = "half-open")
        => IF Last.raised # None
           THEN cb'.state = "open" /\ cb'.open_since = now'
           ELSE cb'.state = "closed" /\ cb'.results = <<>> ]_vars

C5_Witness ==
    /\ Len(log) >= 2
    /\ \E i \in 1..(Len(log) - 1) :
          /\ log[i].invoked /\ log[i].during = "half-open" /\ log[i].raised # None
          /\ log[Len(log)].invoked /\ log[Len(log)].during = "half-open"
          /\ log[Len(log)].raised = None
    /\ cb.state = "closed"
    /\ cb.results = <<>>

\* index of the last succeeding probe of l (0 when there is none)
LastClear(l) ==
    LET S == {i \in 1..Len(l) : l[i].invoked /\ l[i].during = "half-open"
                                /\ l[i].raised = None}
    IN IF S = {} THEN 0 ELSE CHOOSE i \in S : \A j \in S : j <= i

RanOperation(e) == e.invoked

\* the outcomes recorded since the window was last cleared, in arrival order
Outcomes(l) ==
    LET ran == SelectSeq(SubSeq(l, LastClear(l) + 1, Len(l)), RanOperation)
    IN [i \in 1..Len(ran) |-> ran[i].raised = None]

LastN(s, n) == IF Len(s) <= n THEN s ELSE SubSeq(s, Len(s) - n + 1, Len(s))

\* C6: the window never holds more than window_size outcomes and it is the
\* most recent window_size outcomes recorded (since it was last cleared), in
\* arrival order: the oldest outcome is the one evicted.
C6_WindowIsRecentFifo ==
    /\ Len(cb.results) <= cb.window_size
    /\ cb.results = LastN(Outcomes(log), cb.window_size)

C6_Witness ==
    /\ Len(Outcomes(log)) > cb.window_size
    /\ Len(cb.results) = cb.window_size
    /\ cb.window_size >= 2
    /\ cb.results[1] # cb.results[Len(cb.results)]
    /\ Outcomes(log)[1] # cb.results[1]

(* ---- properties of the service clients ---- *)

IsClientCall == ncalls' = ncalls + 1

\* the backend GETs of one entity: flight by number, ticket by uid, privilege
\* by user, ledger entry by ticket
EntityGets == {"get_flight_by_number", "get_ticket", "get_user_privelge",
               "get_user_privelge_transaction"}

\* C7: a 404 answer to a backend GET of a client is returned as an absent
\* value and is never recorded as a failure in a breaker window.
C7_NotFoundIsNotAFailure ==
    [][ (/\ IsClientCall
         /\ last'.op \in EntityGets
         /\ last'.sent
         /\ ~last'.resp.err
         /\ last'.resp.status = 404)
        => /\ last'.exc = NoException
           /\ last'.ret = None
           /\ \A k \in Breakers :
                 failure_count(cbs'[k].results) <= failure_count(cbs[k].results) ]_vars

\* an operation's backend has a breaker that is Open and not yet due to recover
BackendOpen(op) ==
    \E o \in GuardedOps :
       /\ ServiceName(o) = ServiceName(op)
       /\ cbs[BreakerOf(o)].state = "open"
       /\ now - cbs[BreakerOf(o)].open_since < cbs[BreakerOf(o)].recovery_timeout

\* C8: the guarded operations of one backend share one breaker: once
\* failures of any of them have opened it, every guarded operation of that
\* backend is rejected until the recovery timeout; a call changes no breaker
\* of another backend.
C8_OneBreakerPerBackend ==
    [][ (IsClientCall /\ last'.op \in GuardedOps)
        => /\ (BackendOpen(last'.op) => ~last'.sent)
           /\ \A o \in GuardedOps :
                 ServiceName(o) # ServiceName(last'.op)
                 => cbs'[BreakerOf(o)] = cbs[BreakerOf(o)] ]_vars

SideEffectOps == {"create_ticket", "delete_ticket", "add_transaction"}

\* C9: create-ticket, delete-ticket and append-transaction go through the
\* guarded call: their failure is recorded in the backend's breaker and
\* reaches the caller as CircuitOpenException, and they are not sent while
\* that breaker is Open.
C9_SideEffectsGuarded ==
    [][ (IsClientCall /\ last'.op \in SideEffectOps)
        => /\ (BackendOpen(last'.op) => ~last'.sent)
           /\ (last'.sent /\ (last'.resp.err \/ last'.resp.status = 500)
               => /\ last'.exc = CircuitOpenException(ServiceName(last'.op))
                  /\ \E k \in Breakers :
                        /\ Len(cbs'[k].results) = Len(cbs[k].results) + 1
                        /\ cbs'[k].results[Len(cbs'[k].results)] = FALSE) ]_vars

(* ---- properties of buy_ticket ---- *)

\* positions in the run's requests of the ticket creation
Creations == {j \in 1..Len(buy.issued) : buy.issued[j].op = "create_ticket"}

\* the transaction tx for the run's ticket was issued before request j
LedgerBefore(j, tx) ==
    \E i \in 1..(j - 1) :
       buy.issued[i] = Request("add_transaction", buy.ticket_uid, tx)

\* C10 as stated: a run that issues the ticket creation has issued a ledger
\* transaction for the ticket before: DEBIT_THE_ACCOUNT of paid_by_bonus when
\* paid_by_bonus > 0, otherwise FILL_IN_BALANCE of paid_by_money / 10.
C10_LedgerAlwaysBeforeTicket ==
    \A j \in Creations :
       IF buy.paid_by_bonus > 0
       THEN LedgerBefore(j, [operation_type |-> "DEBIT_THE_ACCOUNT",
                             balance_diff |-> buy.paid_by_bonus])
       ELSE LedgerBefore(j, [operation_type |-> "FILL_IN_BALANCE",
                             balance_diff |-> buy.paid_by_money \div 10])

\* C10 amended: before the ticket creation the run has issued a
\* DEBIT_THE_ACCOUNT of paid_by_bonus when paid_by_bonus > 0 and a
\* FILL_IN_BALANCE of paid_by_money / 10 when the balance flag is not set;
\* with the flag set and paid_by_bonus = 0 it issues no ledger transaction.
C10_LedgerBeforeTicketUnlessZeroDebit ==
    \A j \in Creations :
       /\ buy.paid_by_bonus > 0
          => LedgerBefore(j, [operation_type |-> "DEBIT_THE_ACCOUNT",
                              balance_diff |-> buy.paid_by_bonus])
       /\ ~buy.flag
          => LedgerBefore(j, [operation_type |-> "FILL_IN_BALANCE",
                              balance_diff |-> buy.paid_by_money \div 10])
       /\ (buy.flag /\ buy.paid_by_bonus = 0)
          => \A i \in 1..Len(buy.issued) : buy.issued[i].op # "add_transaction"

C10_Witness ==
    /\ buy.pc = "done"
    /\ buy.outcome = "TicketPurchaseResponse"
    /\ ~buy.flag
    /\ buy.price = 25
    /\ \E j \in Creations :
          LedgerBefore(j, [operation_type |-> "FILL_IN_BALANCE", balance_diff |-> 2])

\* the last ledger transaction the run issued
LastLedger ==
    LET S == {i \in 1..Len(buy.issued) : buy.issued[i].op = "add_transaction"}
    IN buy.issued[CHOOSE i \in S : \A j \in S : j <= i].tx

\* C11: paid_by_bonus is the smaller of balance and price when the balance
\* flag is set and 0 otherwise, paid_by_money is the rest of the price, and
\* without the flag the FILL_IN_BALANCE amount is price / 10 rounded down
\* (price 500, balance 300: 300/200 with the flag; 0/500 and 50 without).
C11_PaymentSplit ==
    buy.pc = "reread"
    => /\ buy.paid_by_bonus + buy.paid_by_money = buy.price
       /\ buy.flag => /\ buy.paid_by_bonus <= buy.balance
                      /\ buy.paid_by_bonus <= buy.price
                      /\ buy.paid_by_bonus \in {buy.balance, buy.price}
       /\ ~buy.flag => /\ buy.paid_by_bonus = 0
                       /\ LastLedger.operation_type = "FILL_IN_BALANCE"
                       /\ 10 * LastLedger.balance_diff <= buy.price
                       /\ buy.price < 10 * LastLedger.balance_diff + 10
       /\ (buy.price = 500 /\ buy.balance = 300)
          => IF buy.flag
             THEN buy.paid_by_bonus = 300 /\ buy.paid_by_money = 200
             ELSE /\ buy.paid_by_bonus = 0 /\ buy.paid_by_money = 500
                  /\ LastLedger.balance_diff = 50

C11_Witness ==
    /\ buy.pc = "reread"
    /\ buy.flag
    /\ buy.price = 500
    /\ buy.balance = 300
    /\ buy.paid_by_bonus = 300
    /\ buy.paid_by_money = 200

\* C12: a purchase whose flight lookup is answered not-found ends in
\* ValidationError, not ServiceUnavailable, with no ledger transaction and
\* no ticket creation issued; likewise when the privilege lookup is
\* answered not-found.
C12_AbsentIsValidationError ==
    [][ (/\ buy.pc \in {"flight", "priv"}
         /\ buy'.pc # buy.pc
         /\ last'.sent
         /\ ~last'.resp.err
         /\ last'.resp.status = 404)
        => /\ buy'.pc = "done"
           /\ buy'.outcome = "ValidationError"
           /\ {i \in 1..Len(buy'.issued) :
                  buy'.issued[i].op \in {"add_transaction", "create_ticket"}} = {} ]_vars

(* ---- properties of return_ticket and delete_with_retry ---- *)

\* C13: cancelling a ticket whose status is not PAID fails with the
\* invalid-state error, issues no delete-ticket call and schedules no
\* deferred task; no deletion either when the ticket is absent or another's.
C13_NoDeletionUnlessPaid ==
    /\ (refund.ticket.mine /\ refund.ticket.status = "CANCELED")
       => /\ refund.pc = "done"
          /\ refund.outcome = "InvalidStateError"
          /\ ~refund.delete_issued
          /\ ~refund.scheduled
    /\ refund.outcome \in {"NotFound", "OwnershipError", "InvalidStateError"}
       => /\ refund.pc = "done"
          /\ ~refund.delete_issued
          /\ ~refund.deleted
          /\ ~refund.scheduled
          /\ ~refund.attempted

C13_Witness ==
    /\ refund.pc = "done"
    /\ refund.ticket = [mine |-> TRUE, status |-> "CANCELED"]
    /\ refund.outcome = "InvalidStateError"

InDeferredPhase == refund.pc \in {"loop", "sleep", "rollback"} \/ refund.attempted

\* C14: for a PAID ticket of the requester the deletion is issued and
\* completed before the deferred loop takes its first step, and the ticket
\* stays deleted whatever the deferred phase does, also when no rollback
\* succeeds before the deadline.
C14_DeletedBeforeDeferred ==
    /\ [](InDeferredPhase
          => /\ refund.ticket = [mine |-> TRUE, status |-> "PAID"]
             /\ refund.delete_issued
             /\ refund.deleted
             /\ refund.outcome = "NoContent")
    /\ [][(refund.deleted /\ refund'.n = refund.n) => refund'.deleted]_vars

C14_Witness ==
    /\ refund.pc = "done"
    /\ refund.attempted
    /\ refund.deleted
    /\ ~refund.rolled_back
    /\ ~refund.rollback_issued
    /\ now >= refund.deadline

\* the step is a lookup attempt of the deferred loop
IsAttempt ==
    /\ refund.pc = "loop"
    /\ refund'.pc # "done"
    /\ (refund'.pc # "loop" \/ cbs' # cbs)

\* C15: the deferred loop terminates when the clock advances; it stops
\* right after issuing the rollback or once the deadline has passed, starts
\* no lookup after the deadline, and a lookup that raises service-unavailable
\* sends it back to the loop instead of ending it.
C15_LoopTerminates ==
    /\ (refund.pc \in {"loop", "sleep", "rollback"}) ~> (refund.pc = "done")
    /\ [][ /\ IsAttempt => now < refund.deadline
           /\ (refund.pc \in {"loop", "sleep", "rollback"} /\ refund'.pc = "done")
              => (refund'.rollback_issued \/ now >= refund.deadline)
           /\ (refund.pc = "sleep" /\ refund' # refund)
              => (refund'.pc = "loop" /\ now' = now + Interval)
           /\ (IsAttempt /\ refund'.attempt = "unavailable") => refund'.pc = "sleep" ]_vars

C15_Witness ==
    /\ refund.pc = "done"
    /\ refund.attempt = "unavailable"
    /\ refund.waited
    /\ ~refund.rollback_issued
    /\ now >= refund.deadline

\* C17: when the ledger transaction was found and the rollback call fails
\* before the deadline, the deferred phase goes on retrying.
C17_RetriesFailedRollback ==
    [][ (/\ refund.pc = "rollback"
         /\ refund'.rollback_issued
         /\ ~refund'.rolled_back
         /\ refund' # refund
         /\ now' < refund.deadline)
        => refund'.pc # "done" ]_vars

\* C18: between two consecutive lookup attempts the loop waits the
\* interval, after service-unavailable and after not-found alike.
C18_WaitsBetweenAttempts ==
    [][ (IsAttempt /\ refund.attempted) => refund.waited ]_vars

(* ---- properties of get_user ---- *)

Unavailable == {"failed", "rejected"}

\* C16: the profile view degrades each section on its own: an unavailable
\* privilege lookup gives an empty privilege section, an unavailable ticket
\* lookup an empty ticket list, an unavailable flight lookup placeholder
\* flight data for that ticket; the view never fails with ServiceUnavailable.
C16_ProfileDegrades ==
    me.pc = "done"
    => /\ me.outcome \in {"UserInfoResponse", "NotFound"}
       /\ me.priv_call \in Unavailable
          => (me.outcome = "UserInfoResponse" /\ me.body.privilege = "")
       /\ me.priv_call = "ok"
          => (me.outcome = "UserInfoResponse" /\ me.body.privilege # "")
       /\ me.tickets_call \in Unavailable
          => (me.outcome = "UserInfoResponse" /\ me.body.tickets = <<>>)
       /\ me.tickets_call = "ok"
          => /\ me.outcome = "UserInfoResponse"
             /\ Len(me.body.tickets) = me.count
             /\ \A i \in 1..Len(me.body.tickets) :
                   me.body.tickets[i].flight =
                      (IF me.body.tickets[i].lookup \in Unavailable
                       THEN Placeholder ELSE "value")

\* both breakers Open: both lookups rejected, an empty response returned
C16_Witness ==
    /\ me.pc = "done"
    /\ me.priv_call = "rejected"
    /\ me.tickets_call = "rejected"
    /\ cbs[BreakerOf("get_user_privelge")].state = "open"
    /\ cbs[BreakerOf("get_user_tickets")].state = "open"
    /\ me.outcome = "UserInfoResponse"
    /\ me.body = [tickets |-> <<>>, privilege |-> ""]

(* ---- properties of concurrent calls ---- *)

\* C19: under concurrent calls at most one call is admitted as the half-open
\* probe: while the probe's operation runs, no other call runs the operation.
C19_SingleProbe ==
    Cardinality({t \in Running : thr[t].during = "half-open"}) <= 1

(* ---- invariants of the breaker between calls ---- *)

\* the failures among the last window_size outcomes recorded
RecentFailures(l, b) == failure_count(LastN(Outcomes(l), b.window_size))

\* C20: between calls the breaker is Closed or Open; Open has open_since set;
\* Closed has fewer failures in the window than failure_threshold; failures
\* older than window_size outcomes do not count: a failing call on a Closed
\* breaker opens it exactly when the failures among the last window_size
\* outcomes reach the threshold.
C20_StatesBetweenCalls ==
    /\ [](/\ cb.state \in {"closed", "open"}
          /\ cb.state = "open" => cb.open_since \in 0..now
          /\ cb.state = "closed" => failure_count(cb.results) < cb.failure_threshold)
    /\ [][ (IsCall /\ Last.invoked /\ Last.raised # None /\ cb.state = "closed")
           => (cb'.state = "open"
               <=> RecentFailures(log', cb) >= cb.failure_threshold) ]_vars

\* a Closed breaker that has seen failure_threshold failures, not all of
\* them among the last window_size outcomes
C20_Witness ==
    /\ cb.state = "closed"
    /\ Len(Outcomes(log)) > cb.window_size
    /\ failure_count(Outcomes(log)) >= cb.failure_threshold
    /\ RecentFailures(log, cb) < cb.failure_threshold
    /\ cb.results[Len(cb.results)] = FALSE

====
